---- MODULE Spec2Model ----
(***************************************************************************)
(* Interview Session Runtime of starcamp-interview.                        *)
(*                                                                         *)
(* The server part follows one InterviewSession row and the rows that hang *)
(* off it (InterviewSectionConfig, InterviewQuestion, Score).  Every HTTP  *)
(* handler is a sequence of awaited Prisma calls; each awaited call is one *)
(* atomic database operation, and the handlers of different requests       *)
(* interleave between their awaits.                                        *)
(***************************************************************************)
EXTENDS Integers, Sequences, FiniteSets, Bags, TLC

\* ------------------------------------------------------------------ bounds
\* number of handlers that may be suspended between two awaits at once
MaxPending == 2
\* number of saveScores / handler invocations of the live page in one run
MaxSaves == 2
\* number of steps of the clock in one run
MaxNow == 7

\* ------------------------------------------------------- program constants
MinScore == 1
MaxScore == 5

\* ---------------------------------------------------------------- optionals
\* a JSON field that may be undefined: <<>> is undefined, <<v>> is v
None == <<>>
Some(v) == <<v>>
IsSome(o) == Len(o) = 1
Val(o) == o[1]

\* ------------------------------------------------------------------ domains
Users == {"u1", "u2"}
Statuses == {"SETUP", "IN_PROGRESS", "COMPLETED", "CANCELLED"}
Sections == {"s1", "s2"}
Questions == {"q1", "q2"}
\* Question.sectionId of the question bank: the first section of the plan
\* has two questions to move between, the second has none
QuestionSection == [q1 |-> "s1", q2 |-> "s1"]

Plan1 == <<[sectionId |-> "s1", durationMinutes |-> 1],
           [sectionId |-> "s2", durationMinutes |-> 2]>>
Plan2 == <<[sectionId |-> "s1", durationMinutes |-> 2]>>
Selection1 == <<[questionId |-> "q1", order |-> 1],
                [questionId |-> "q2", order |-> 2]>>
Selection2 == <<[questionId |-> "q1", order |-> 1]>>

\* request bodies.  A JSON number x is carried as the integer 2*x, so that
\* 2.5 is a body value and Number.isInteger can say no.
InvalidScoreInputs == {None, Some(0 - 2), Some(0), Some(5), Some(12)}
ValidScoreNotes == {<<Some(2), None>>, <<Some(10), Some("n")>>}
UpdateDTOs == {[candidateName |-> Some("B"), sectionConfigs |-> Some(Plan2), selectedQuestions |-> None],
               [candidateName |-> None, sectionConfigs |-> None, selectedQuestions |-> Some(Selection2)],
               [candidateName |-> None, sectionConfigs |-> None, selectedQuestions |-> None]}
ScoreBodies == {[questionId |-> q, score |-> sn[1], notes |-> sn[2]] :
                    q \in Questions, sn \in ValidScoreNotes}
               \cup {[questionId |-> "q1", score |-> x, notes |-> None] : x \in InvalidScoreInputs}
               \cup {[questionId |-> "", score |-> Some(2), notes |-> None]}

\* ----------------------------------------------------------- error messages
\* an Error message is its sequence of words, so that msg.includes('SETUP')
\* is a search and not a table lookup
NotFoundMsg == <<"Interview", "not", "found">>
UnauthorizedMsg == <<"Unauthorized">>
EditMsg == <<"Can", "only", "edit", "interviews", "in", "SETUP", "status">>
StartMsg == <<"Can", "only", "start", "interviews", "in", "SETUP", "status">>
CompleteMsg == <<"Can", "only", "complete", "interviews", "in", "IN_PROGRESS", "status">>
InternalMsg == <<"Internal", "server", "error">>
RequiredMsg == <<"interviewId,", "questionId,", "and", "score", "required">>
ScoreRangeMsg == <<"score", "must", "be", "an", "integer", "between", "1", "and", "5">>
\* thrown by Prisma, never shown to the caller
PrismaMsg == <<"PrismaClientKnownRequestError">>
NoMsg == <<>>

Includes(msg, word) == \E i \in 1..Len(msg) : msg[i] = word

\* ------------------------------------------------------------------- state
VARIABLES
    session,            \* the InterviewSession row, or NoSession once deleted
    sectionConfigs,     \* InterviewSectionConfig rows of the session, by order
    selectedQuestions,  \* InterviewQuestion rows of the session
    scoreRows,          \* Score rows of the session: questionId -> rows
    pending,            \* the bag of handlers suspended between two awaits
    response,           \* the HTTP response being sent, NoResponse when none is
    \* LiveInterviewPage
    page,               \* "live" while mounted, "left" after navigate to the results
    interview,          \* the interview as loaded by getById
    scores,             \* the buffer questionId -> { score, notes }
    saving,             \* the "Saving..." flag
    currentSectionIdx,
    currentQuestionIdx,
    sectionStartTime,
    now,                \* the wall clock, new Date()
    cycles,             \* the invocations of saveScores and what they await
    nextSave,           \* how many there have been
    net,                \* requests sent by the page and not yet received
    \* SectionTimer
    elapsed,            \* the elapsed state of the timer on display
    \* the surfaces that show the overall score
    loaded,             \* the interview with its scores, as fetched for them
    shown,              \* the overall score on the surface rendered last
    \* authMiddleware
    req                 \* the request that came last, as the middleware left it

dbVars == <<session, sectionConfigs, selectedQuestions, scoreRows>>
serverVars == <<session, sectionConfigs, selectedQuestions, scoreRows, pending, response>>
navVars == <<currentSectionIdx, currentQuestionIdx, sectionStartTime>>
liveVars == <<page, interview, scores, saving, currentSectionIdx, currentQuestionIdx,
              sectionStartTime, now, cycles, nextSave, net, elapsed>>
resultVars == <<loaded, shown, req>>
vars == <<session, sectionConfigs, selectedQuestions, scoreRows, pending, response,
          page, interview, scores, saving, currentSectionIdx, currentQuestionIdx,
          sectionStartTime, now, cycles, nextSave, net, elapsed, loaded, shown, req>>

NoSession == [exists |-> FALSE, interviewerId |-> "", candidateName |-> "", status |-> ""]
Owner == "u1"

NoDTO == [candidateName |-> None, sectionConfigs |-> None, selectedQuestions |-> None]
NoScoreBody == [questionId |-> "", score |-> None, notes |-> None]
\* the request a handler serves: the save cycle and question of a request
\* of the live page, NoRid for a request made straight to the API
NoRid == [cycle |-> 0, q |-> ""]
Handler == [op |-> "", rid |-> NoRid, caller |-> "", dto |-> NoDTO, body |-> NoScoreBody,
            found |-> FALSE, pc |-> ""]
NoResponse == [op |-> "none", rid |-> NoRid, caller |-> "", score |-> None, code |-> 0,
               error |-> NoMsg, stage |-> ""]

Suspended == BagToSet(pending)
\* the handler h awaits a Prisma call
Suspend(h) == /\ BagCardinality(pending) < MaxPending
              /\ pending' = pending (+) SetToBag({h})
\* the awaited call of h is performed
Resume(h) == pending' = pending (-) SetToBag({h})
\* the awaited call of h is performed and h awaits the next one
Continue(h, g) == pending' = (pending (-) SetToBag({h})) (+) SetToBag({g})

\* a handler runs only when no response is half sent
Ready == response = NoResponse

Http(code, error) == [code |-> code, error |-> error]
\* stage "guard": answered before the first write; "write": after it
Reply(op, rid, caller, score, stage, r) ==
    response' = [op |-> op, rid |-> rid, caller |-> caller, score |-> score, code |-> r.code,
                 error |-> r.error, stage |-> stage]

\* ------------------------------------------------------- createInterview
Created(status) ==
    /\ session = [exists |-> TRUE, interviewerId |-> Owner,
                  candidateName |-> "A", status |-> status]
    /\ sectionConfigs = Plan1
    /\ selectedQuestions = Selection1
    /\ scoreRows = [q \in Questions |-> <<>>]
    /\ pending = EmptyBag
    /\ response = NoResponse

\* a save cycle that has not run
NoCycle == [state |-> "idle", trigger |-> "", idx |-> 0,
            results |-> [q \in Questions |-> "none"]]

\* a save cycle that is over: nothing of it is awaited any more
Settled == [NoCycle EXCEPT !.state = "settled"]

\* LiveInterviewPage as mounted, the interview loaded
Mounted ==
    /\ page = "live"
    /\ interview = [sectionConfigs |-> Plan1, selectedQuestions |-> Selection1]
    /\ scores = [q \in Questions |-> None]
    /\ saving = FALSE
    /\ currentSectionIdx = 0
    /\ currentQuestionIdx = 0
    /\ sectionStartTime = 0
    /\ now = 0
    /\ cycles = [c \in 1..MaxSaves |-> NoCycle]
    /\ nextSave = 0
    /\ net = {}
    /\ elapsed = 0

\* no surface has fetched the interview
NoInterview == [sectionConfigs |-> <<>>, selectedQuestions |-> <<>>, scores |-> {}]
NotShown == [surface |-> "none", overall |-> [text |-> "", tenths |-> {}]]
\* no request has come in: req.cookies is empty, userId and userEmail unset
NoCookie == [present |-> FALSE, body |-> "", userId |-> "", email |-> "", key |-> "",
             expired |-> FALSE]
NoRequest == [seq |-> 0, cookie |-> NoCookie, next |-> FALSE, userId |-> "", userEmail |-> ""]
NothingShown ==
    /\ loaded = NoInterview
    /\ shown = NotShown
    /\ req = NoRequest

Init == Created("SETUP") /\ Mounted /\ NothingShown

\* ------------------------------------------------- InterviewController catch

\* InterviewController.start, the catch block
StartCatch(msg) ==
    IF msg = NotFoundMsg THEN Http(404, msg)
    ELSE IF msg = UnauthorizedMsg THEN Http(403, msg)
    ELSE IF Includes(msg, "SETUP") THEN Http(400, msg)
    ELSE Http(500, InternalMsg)

\* InterviewController.update, the catch block
UpdateCatch(msg) ==
    IF msg = NotFoundMsg THEN Http(404, msg)
    ELSE IF msg = UnauthorizedMsg THEN Http(403, msg)
    ELSE IF Includes(msg, "SETUP") THEN Http(400, msg)
    ELSE Http(500, InternalMsg)

\* InterviewController.complete, the catch block
CompleteCatch(msg) ==
    IF msg = NotFoundMsg THEN Http(404, msg)
    ELSE IF msg = UnauthorizedMsg THEN Http(403, msg)
    ELSE Http(500, InternalMsg)

\* InterviewController.remove, the catch block
RemoveCatch(msg) ==
    IF msg = NotFoundMsg THEN Http(404, msg)
    ELSE IF msg = UnauthorizedMsg THEN Http(403, msg)
    ELSE Http(500, InternalMsg)

\* ------------------------------------------------------- InterviewService
\* startInterview without its status guard
StartGuard_NoStatusCheck(userId) ==
    IF ~session.exists THEN NotFoundMsg
    ELSE IF session.interviewerId # userId THEN UnauthorizedMsg
    ELSE NoMsg

\* the guards at the head of startInterview: the Error thrown, or NoMsg
StartGuard(userId) ==
    IF ~session.exists THEN NotFoundMsg
    ELSE IF session.interviewerId # userId THEN UnauthorizedMsg
    ELSE IF session.status # "SETUP" THEN StartMsg
    ELSE NoMsg

\* the guards at the head of completeInterview
CompleteGuard(userId) ==
    IF ~session.exists THEN NotFoundMsg
    ELSE IF session.interviewerId # userId THEN UnauthorizedMsg
    ELSE IF session.status # "IN_PROGRESS" THEN CompleteMsg
    ELSE NoMsg

\* the guards at the head of updateInterview
UpdateGuard(userId) ==
    IF ~session.exists THEN NotFoundMsg
    ELSE IF session.interviewerId # userId THEN UnauthorizedMsg
    ELSE IF session.status # "SETUP" THEN EditMsg
    ELSE NoMsg

\* deleteInterview without its ownership guard
DeleteGuard_NoOwnerCheck(userId) ==
    IF ~session.exists THEN NotFoundMsg
    ELSE NoMsg

\* the guards at the head of deleteInterview
DeleteGuard(userId) ==
    IF ~session.exists THEN NotFoundMsg
    ELSE IF session.interviewerId # userId THEN UnauthorizedMsg
    ELSE NoMsg

\* POST /interviews/:id/start up to the await of interviewSession.update
StartRecv(rid, caller) ==
    /\ Ready
    /\ IF StartGuard(caller) # NoMsg
          THEN /\ Reply("start", rid, caller, None, "guard", StartCatch(StartGuard(caller)))
               /\ UNCHANGED pending
          ELSE /\ Suspend([Handler EXCEPT !.rid = rid, !.op = "start", !.caller = caller, !.pc = "write"])
               /\ UNCHANGED response
    /\ UNCHANGED dbVars

\* interviewSession.update({ status: 'IN_PROGRESS' }) and the response
StartWrite(h) ==
    /\ Ready
    /\ h \in Suspended
    /\ h.op = "start"
    /\ Resume(h)
    /\ IF session.exists
          THEN /\ session' = [session EXCEPT !.status = "IN_PROGRESS"]
               /\ Reply("start", h.rid, h.caller, None, "write", Http(200, NoMsg))
          ELSE /\ UNCHANGED session
               /\ Reply("start", h.rid, h.caller, None, "write", StartCatch(PrismaMsg))
    /\ UNCHANGED <<sectionConfigs, selectedQuestions, scoreRows>>

\* POST /interviews/:id/complete up to the await of interviewSession.update
CompleteRecv(rid, caller) ==
    /\ Ready
    /\ IF CompleteGuard(caller) # NoMsg
          THEN /\ Reply("complete", rid, caller, None, "guard", CompleteCatch(CompleteGuard(caller)))
               /\ UNCHANGED pending
          ELSE /\ Suspend([Handler EXCEPT !.rid = rid, !.op = "complete", !.caller = caller, !.pc = "write"])
               /\ UNCHANGED response
    /\ UNCHANGED dbVars

\* interviewSession.update({ status: 'COMPLETED' }) and the response
CompleteWrite(h) ==
    /\ Ready
    /\ h \in Suspended
    /\ h.op = "complete"
    /\ Resume(h)
    /\ IF session.exists
          THEN /\ session' = [session EXCEPT !.status = "COMPLETED"]
               /\ Reply("complete", h.rid, h.caller, None, "write", Http(200, NoMsg))
          ELSE /\ UNCHANGED session
               /\ Reply("complete", h.rid, h.caller, None, "write", CompleteCatch(PrismaMsg))
    /\ UNCHANGED <<sectionConfigs, selectedQuestions, scoreRows>>

\* PUT /interviews/:id up to the start of the transaction
UpdateRecv(rid, caller, dto) ==
    /\ Ready
    /\ IF UpdateGuard(caller) # NoMsg
          THEN /\ Reply("update", rid, caller, None, "guard", UpdateCatch(UpdateGuard(caller)))
               /\ UNCHANGED pending
          ELSE /\ Suspend([Handler EXCEPT !.rid = rid, !.op = "update", !.caller = caller, !.dto = dto, !.pc = "write"])
               /\ UNCHANGED response
    /\ UNCHANGED dbVars

\* the transaction of updateInterview, committed as one step
UpdateCommit(h) ==
    LET dto == h.dto
        touches == IsSome(dto.candidateName) \/ IsSome(dto.sectionConfigs)
                      \/ IsSome(dto.selectedQuestions)
    IN
    /\ Ready
    /\ h \in Suspended
    /\ h.op = "update"
    /\ Resume(h)
    /\ IF session.exists
          THEN /\ session' = IF IsSome(dto.candidateName)
                                THEN [session EXCEPT !.candidateName = Val(dto.candidateName)]
                                ELSE session
               /\ sectionConfigs' = IF IsSome(dto.sectionConfigs)
                                       THEN Val(dto.sectionConfigs) ELSE sectionConfigs
               /\ selectedQuestions' = IF IsSome(dto.selectedQuestions)
                                          THEN Val(dto.selectedQuestions) ELSE selectedQuestions
               /\ Reply("update", h.rid, h.caller, None, "write", Http(200, NoMsg))
          ELSE \* the row is gone: update throws P2025, createMany breaks the
               \* interviewId foreign key, the transaction rolls back; with an
               \* empty DTO the final findUnique answers null
               /\ UNCHANGED <<session, sectionConfigs, selectedQuestions>>
               /\ Reply("update", h.rid, h.caller, None, "write",
                        IF touches THEN UpdateCatch(PrismaMsg) ELSE Http(200, NoMsg))
    /\ UNCHANGED scoreRows

\* DELETE /interviews/:id up to the start of the transaction
DeleteRecv(rid, caller) ==
    /\ Ready
    /\ IF DeleteGuard(caller) # NoMsg
          THEN /\ Reply("delete", rid, caller, None, "guard", RemoveCatch(DeleteGuard(caller)))
               /\ UNCHANGED pending
          ELSE /\ Suspend([Handler EXCEPT !.rid = rid, !.op = "delete", !.caller = caller, !.pc = "write"])
               /\ UNCHANGED response
    /\ UNCHANGED dbVars

\* a deleteInterview that deletes the session's own rows and leaves the scores
DeleteCommit_ScoresKept(h) ==
    /\ Ready
    /\ h \in Suspended
    /\ h.op = "delete"
    /\ Resume(h)
    /\ IF session.exists
          THEN /\ UNCHANGED scoreRows
               /\ selectedQuestions' = <<>>
               /\ sectionConfigs' = <<>>
               /\ session' = NoSession
               /\ Reply("delete", h.rid, h.caller, None, "write", Http(204, NoMsg))
          ELSE /\ UNCHANGED dbVars
               /\ Reply("delete", h.rid, h.caller, None, "write", RemoveCatch(PrismaMsg))

\* the transaction of deleteInterview, committed as one step
DeleteCommit(h) ==
    /\ Ready
    /\ h \in Suspended
    /\ h.op = "delete"
    /\ Resume(h)
    /\ IF session.exists
          THEN /\ scoreRows' = [q \in Questions |-> <<>>]
               /\ selectedQuestions' = <<>>
               /\ sectionConfigs' = <<>>
               /\ session' = NoSession
               /\ Reply("delete", h.rid, h.caller, None, "write", Http(204, NoMsg))
          ELSE \* interviewSession.delete throws P2025
               /\ UNCHANGED dbVars
               /\ Reply("delete", h.rid, h.caller, None, "write", RemoveCatch(PrismaMsg))

\* ----------------------------------------------------------- ScoreController
\* JSON numbers, carried doubled
Num(n) == 2 * n
IsInteger(x) == x % 2 = 0
IntOf(x) == x \div 2

\* the range validation with its lower limit off by one
ScoreBodyGuard_ZeroAllowed(body) ==
    IF body.questionId = "" \/ ~IsSome(body.score) THEN RequiredMsg
    ELSE IF ~IsInteger(Val(body.score)) \/ Val(body.score) < Num(MinScore - 1)
               \/ Val(body.score) > Num(MaxScore) THEN ScoreRangeMsg
    ELSE NoMsg

\* the two validations at the head of ScoreController.upsert: the 400
\* answered, or NoMsg
ScoreBodyGuard(body) ==
    IF body.questionId = "" \/ ~IsSome(body.score) THEN RequiredMsg
    ELSE IF ~IsInteger(Val(body.score)) \/ Val(body.score) < Num(MinScore)
               \/ Val(body.score) > Num(MaxScore) THEN ScoreRangeMsg
    ELSE NoMsg

\* "Verify interview ownership" of ScoreController.upsert
ScoreOwnerGuard(userId) ==
    IF ~session.exists THEN Http(404, NotFoundMsg)
    ELSE IF session.interviewerId # userId THEN Http(403, UnauthorizedMsg)
    ELSE Http(200, NoMsg)

\* POST /scores up to the await of ScoreService.upsertScore
UpsertRecv(rid, caller, body) ==
    /\ Ready
    /\ IF ScoreBodyGuard(body) # NoMsg
          THEN /\ Reply("upsert", rid, caller, body.score, "guard", Http(400, ScoreBodyGuard(body)))
               /\ UNCHANGED pending
          ELSE IF ScoreOwnerGuard(caller).code # 200
          THEN /\ Reply("upsert", rid, caller, body.score, "guard", ScoreOwnerGuard(caller))
               /\ UNCHANGED pending
          ELSE /\ Suspend([Handler EXCEPT !.rid = rid, !.op = "upsert", !.caller = caller, !.body = body, !.pc = "find"])
               /\ UNCHANGED response
    /\ UNCHANGED dbVars

\* ------------------------------------------------------------- ScoreService
\* the Score table without its unique index
Score_NoUniqueIndex(rows) == TRUE

\* the unique index Score_interviewId_questionId_key: may a row for this
\* question be inserted next to the rows there are?
Score_interviewId_questionId_key(rows) == Len(rows) = 0

NewRow(body) == [score |-> IntOf(Val(body.score)), notes |-> body.notes]
\* an update that writes the notes only
UpdatedRow_NotesOnly(row, body) ==
    [score |-> row.score,
     notes |-> IF IsSome(body.notes) THEN body.notes ELSE row.notes]

\* update: { score, notes }: an undefined notes leaves the column alone
UpdatedRow(row, body) ==
    [score |-> IntOf(Val(body.score)),
     notes |-> IF IsSome(body.notes) THEN body.notes ELSE row.notes]
UpdateRows(rows, body) == [k \in 1..Len(rows) |-> UpdatedRow(rows[k], body)]

\* prisma.score.upsert, first half: look the row up by its unique key
UpsertFind(h) ==
    /\ Ready
    /\ h \in Suspended
    /\ h.op = "upsert"
    /\ h.pc = "find"
    /\ Continue(h, [h EXCEPT !.pc = "write",
                              !.found = scoreRows[h.body.questionId] # <<>>])
    /\ UNCHANGED <<dbVars, response>>

\* prisma.score.upsert, second half: update the row found or create one,
\* and the response.  A create that meets a row inserted meanwhile either
\* fails on the unique index (P2002) or, as a native ON CONFLICT upsert,
\* updates that row.
UpsertWrite(h) ==
    LET body == h.body
        q == body.questionId
        ok == Reply("upsert", h.rid, h.caller, body.score, "write", Http(200, NoMsg))
        fail == Reply("upsert", h.rid, h.caller, body.score, "write", Http(500, InternalMsg))
    IN
    /\ Ready
    /\ h \in Suspended
    /\ h.op = "upsert"
    /\ h.pc = "write"
    /\ Resume(h)
    /\ UNCHANGED <<session, sectionConfigs, selectedQuestions>>
    /\ IF ~session.exists
          THEN \* nothing to update, and a create breaks Score_interviewId_fkey
               fail /\ UNCHANGED scoreRows
          ELSE IF h.found /\ scoreRows[q] # <<>>
          THEN ok /\ scoreRows' = [scoreRows EXCEPT ![q] = UpdateRows(@, body)]
          ELSE IF Score_interviewId_questionId_key(scoreRows[q])
          THEN ok /\ scoreRows' = [scoreRows EXCEPT ![q] = Append(@, NewRow(body))]
          ELSE \/ fail /\ UNCHANGED scoreRows
               \/ ok /\ scoreRows' = [scoreRows EXCEPT ![q] = UpdateRows(@, body)]

\* ---------------------------------------------------------------- the API
\* res.json / res.status(..).json: the response leaves the server
Send ==
    /\ response # NoResponse
    /\ response' = NoResponse
    /\ UNCHANGED <<dbVars, pending>>

Next ==
    \/ (\E caller \in Users : StartRecv(NoRid, caller)) /\ UNCHANGED <<liveVars, resultVars>>
    \/ (\E h \in Suspended : StartWrite(h)) /\ UNCHANGED <<liveVars, resultVars>>
    \/ (\E caller \in Users : CompleteRecv(NoRid, caller)) /\ UNCHANGED <<liveVars, resultVars>>
    \/ (\E h \in Suspended : CompleteWrite(h)) /\ UNCHANGED <<liveVars, resultVars>>
    \/ (\E caller \in Users, dto \in UpdateDTOs : UpdateRecv(NoRid, caller, dto)) /\ UNCHANGED <<liveVars, resultVars>>
    \/ (\E h \in Suspended : UpdateCommit(h)) /\ UNCHANGED <<liveVars, resultVars>>
    \/ (\E caller \in Users : DeleteRecv(NoRid, caller)) /\ UNCHANGED <<liveVars, resultVars>>
    \/ (\E h \in Suspended : DeleteCommit(h)) /\ UNCHANGED <<liveVars, resultVars>>
    \/ (\E caller \in Users, body \in ScoreBodies : UpsertRecv(NoRid, caller, body)) /\ UNCHANGED <<liveVars, resultVars>>
    \/ (\E h \in Suspended : UpsertFind(h)) /\ UNCHANGED <<liveVars, resultVars>>
    \/ (\E h \in Suspended : UpsertWrite(h)) /\ UNCHANGED <<liveVars, resultVars>>
    \/ Send /\ UNCHANGED <<liveVars, resultVars>>

Spec == Init /\ [][Next]_vars

\* ======================================================== LiveInterviewPage
\* score values of the radio buttons and note texts typed, as used here
LiveScores == {5}
LiveNotes == {"n"}

\* questionsInSection: the selected questions of the current section
QuestionsInSection(idx) ==
    SelectSeq(interview.selectedQuestions,
              LAMBDA iq : QuestionSection[iq.questionId] = interview.sectionConfigs[idx + 1].sectionId)
HasCurrentQuestion == currentQuestionIdx < Len(QuestionsInSection(currentSectionIdx))
CurrentQuestion == QuestionsInSection(currentSectionIdx)[currentQuestionIdx + 1].questionId

\* notes that updateScore does not carry over
NotesOrEmpty_Dropped(entry) == ""

\* prev[questionId]?.notes || '' and prev[questionId]?.score || 0
NotesOrEmpty(entry) == IF IsSome(entry) THEN Val(entry).notes ELSE ""
ScoreOrZero(entry) == IF IsSome(entry) THEN Val(entry).score ELSE 0

\* radio buttons that are disabled once the time of the section is over
updateScore_InTime(score) ==
    /\ page = "live"
    /\ HasCurrentQuestion
    /\ elapsed < interview.sectionConfigs[currentSectionIdx + 1].durationMinutes * 60 * 1000
    /\ scores' = [scores EXCEPT ![CurrentQuestion] =
                     Some([score |-> score, notes |-> NotesOrEmpty(@)])]
    /\ UNCHANGED <<serverVars, page, interview, saving, navVars, now, elapsed, resultVars, cycles, nextSave, net>>

\* updateScore, from the radio buttons of the current question
updateScore(score) ==
    /\ page = "live"
    /\ HasCurrentQuestion
    /\ scores' = [scores EXCEPT ![CurrentQuestion] =
                     Some([score |-> score, notes |-> NotesOrEmpty(@)])]
    /\ UNCHANGED <<serverVars, page, interview, saving, navVars, now, elapsed, resultVars, cycles, nextSave, net>>

\* updateNotes, from the textarea of the current question
updateNotes(notes) ==
    /\ page = "live"
    /\ HasCurrentQuestion
    /\ scores' = [scores EXCEPT ![CurrentQuestion] =
                     Some([score |-> ScoreOrZero(@), notes |-> notes])]
    /\ UNCHANGED <<serverVars, page, interview, saving, navVars, now, elapsed, resultVars, cycles, nextSave, net>>

\* ---------------------------------------------------- question navigation
\* handleNextQuestion without its test of the index
handleNextQuestion_Unchecked ==
    /\ page = "live"
    /\ currentQuestionIdx' = currentQuestionIdx + 1
    /\ UNCHANGED <<serverVars, page, interview, scores, saving, currentSectionIdx,
                   sectionStartTime, now, elapsed, resultVars, cycles, nextSave, net>>

\* handleNextQuestion: the "Next" button, shown before the last question
handleNextQuestion ==
    /\ page = "live"
    /\ currentQuestionIdx < Len(QuestionsInSection(currentSectionIdx)) - 1
    /\ currentQuestionIdx' = currentQuestionIdx + 1
    /\ UNCHANGED <<serverVars, page, interview, scores, saving, currentSectionIdx,
                   sectionStartTime, now, elapsed, resultVars, cycles, nextSave, net>>

\* handlePrevQuestion: the "Previous" button, disabled on the first question
handlePrevQuestion ==
    /\ page = "live"
    /\ currentQuestionIdx > 0
    /\ currentQuestionIdx' = currentQuestionIdx - 1
    /\ UNCHANGED <<serverVars, page, interview, scores, saving, currentSectionIdx,
                   sectionStartTime, now, elapsed, resultVars, cycles, nextSave, net>>

\* the ProgressDot of question idx of the current section is clicked
selectQuestion(idx) ==
    /\ page = "live"
    /\ idx \in 0..(Len(QuestionsInSection(currentSectionIdx)) - 1)
    /\ currentQuestionIdx' = idx
    /\ UNCHANGED <<serverVars, page, interview, scores, saving, currentSectionIdx,
                   sectionStartTime, now, elapsed, resultVars, cycles, nextSave, net>>

\* ------------------------------------------------------------- saveScores
\* saveScores is made anew (useCallback, [id, scores]) in every render in
\* which the buffer has changed, and closes over the buffer of that render.
\* What follows is saveScores as the closure over the buffer buf.

\* saveScores without its filter on the score
ToSaveOf_Unfiltered(buf) == {q \in Questions : IsSome(buf[q])}

\* Object.entries(scores).filter(([, data]) => data.score > 0)
ToSaveOf(buf) == {q \in Questions : IsSome(buf[q]) /\ Val(buf[q]).score > 0}
\* Object.keys(scores).length === 0
BufferEmptyOf(buf) == \A q \in Questions : buf[q] = None

UpsertRequestOf(buf, c, q) ==
    [rid |-> [cycle |-> c, q |-> q], op |-> "upsert",
     body |-> [questionId |-> q, score |-> Some(Num(Val(buf[q]).score)),
               notes |-> Some(Val(buf[q]).notes)]]

\* the same of the render on screen
ToSave == ToSaveOf(scores)
BufferEmpty == BufferEmptyOf(scores)

\* a useAutoSave whose interval keeps the callback it was created with: the
\* saveScores of the first render, over the buffer before loadInterview
savedCallback_AtMount == [q \in Questions |-> None]

\* savedCallback.current of useAutoSave: the effect on [callback] stores the
\* saveScores of every render that made a new one, and runs with the commit
\* of the input event that changed the buffer; the buffer it closes over
savedCallback == scores

\* the buffer that the saveScores called by the trigger closes over: the
\* interval calls savedCallback.current, the handlers of the buttons the
\* saveScores of the render on screen
Closure(trigger) == IF trigger = "tick" THEN savedCallback ELSE scores
CompleteRequest(c) ==
    [rid |-> [cycle |-> c, q |-> ""], op |-> "complete", body |-> NoScoreBody]

\* what follows "await saveScores()" in the handler that started cycle c:
\* nothing for the auto-save tick; for handleNextSection the next section or,
\* on the last one, interviewService.complete; for handleEndEarly complete
Completes(trigger, idx) ==
    \/ trigger = "end"
    \/ trigger = "next" /\ ~(idx < Len(interview.sectionConfigs) - 1)
AfterSave(c, trigger, idx, sent) ==
    /\ IF trigger = "next" /\ idx < Len(interview.sectionConfigs) - 1 /\ page = "live"
          THEN /\ currentSectionIdx' = idx + 1
               /\ currentQuestionIdx' = 0
               /\ sectionStartTime' = now
          ELSE UNCHANGED navVars
    /\ net' = (net \cup sent) \cup (IF Completes(trigger, idx) THEN {CompleteRequest(c)} ELSE {})

\* saveScores called by the handler named by trigger.  With an empty buffer
\* it returns at once; with no scored entry Promise.all([]) resolves at once;
\* in both cases the caller goes on in the same turn.  Otherwise the upserts
\* of all scored entries are sent together and the caller awaits them.
saveScores(trigger) ==
    LET c == nextSave + 1
        buf == Closure(trigger)
    IN
    /\ nextSave < MaxSaves
    /\ nextSave' = c
    /\ IF BufferEmptyOf(buf) \/ ToSaveOf(buf) = {}
          THEN /\ cycles' = [cycles EXCEPT ![c] = Settled]
               /\ saving' = IF BufferEmptyOf(buf) THEN saving ELSE FALSE
               /\ AfterSave(c, trigger, currentSectionIdx, {})
          ELSE /\ cycles' = [cycles EXCEPT ![c] =
                                [state |-> "saving", trigger |-> trigger,
                                 idx |-> currentSectionIdx,
                                 results |-> [q \in Questions |->
                                                 IF q \in ToSaveOf(buf) THEN "wait"
                                                 ELSE "none"]]]
               /\ saving' = TRUE
               /\ net' = net \cup {UpsertRequestOf(buf, c, q) : q \in ToSaveOf(buf)}
               /\ UNCHANGED navVars
    /\ UNCHANGED <<serverVars, page, interview, scores, now, elapsed, resultVars>>

\* useAutoSave with setTimeout in place of setInterval: it fires once
AutoSaveTick_Once ==
    /\ page = "live"
    /\ ~BufferEmpty
    /\ nextSave = 0
    /\ saveScores("tick")

\* useAutoSave: the interval fires and calls the saved callback
AutoSaveTick ==
    /\ page = "live"
    /\ ~BufferEmpty
    /\ saveScores("tick")

\* handleNextSection, up to its await: the button stands in for "Next" on
\* the last question of the section
handleNextSection ==
    /\ page = "live"
    /\ ~(currentQuestionIdx < Len(QuestionsInSection(currentSectionIdx)) - 1)
    /\ saveScores("next")

\* handleEndEarly, up to its await
handleEndEarly ==
    /\ page = "live"
    /\ saveScores("end")

\* Promise.all that settles with the first promise to settle
PromiseAll_Race(results) ==
    IF \E q \in Questions : results[q] = "fail" THEN "rejected"
    ELSE IF \E q \in Questions : results[q] = "ok" THEN "fulfilled"
    ELSE "pending"

\* Promise.all(promises) over the upserts of one save: rejected with the
\* first rejection, fulfilled once every promise is
PromiseAll(results) ==
    IF \E q \in Questions : results[q] = "fail" THEN "rejected"
    ELSE IF \A q \in Questions : results[q] \in {"none", "ok"} THEN "fulfilled"
    ELSE "pending"

\* Promise.all settles: fulfilled when every upsert was answered 2xx,
\* rejected at the first failure; catch, finally setSaving(false), and the
\* caller of saveScores goes on
SaveSettled(c) ==
    /\ cycles[c].state = "saving"
    /\ PromiseAll(cycles[c].results) # "pending"
    /\ cycles' = [cycles EXCEPT ![c] = Settled]
    /\ saving' = IF page = "live" THEN FALSE ELSE saving
    /\ AfterSave(c, cycles[c].trigger, cycles[c].idx, {})
    /\ UNCHANGED <<serverVars, page, interview, scores, now, elapsed, resultVars, nextSave>>

\* ------------------------------------------------------------ the network
\* the result of a request arrives at the page: a promise of a save cycle
\* resolves or rejects; a fulfilled complete is followed by navigate
Arrives(rid, op, ok) ==
    /\ cycles' = IF op = "upsert" /\ cycles[rid.cycle].state = "saving"
                    THEN [cycles EXCEPT ![rid.cycle].results[rid.q] =
                                            IF ok THEN "ok" ELSE "fail"]
                    ELSE cycles
    /\ page' = IF op = "complete" /\ ok /\ cycles[rid.cycle].state # "dead"
                  THEN "left" ELSE page

\* a request of the page reaches ScoreController.upsert
LiveUpsertRecv(m) ==
    /\ m \in net
    /\ m.op = "upsert"
    /\ UpsertRecv(m.rid, Owner, m.body)
    /\ net' = net \ {m}
    /\ UNCHANGED <<page, interview, scores, saving, navVars, now, elapsed, resultVars, cycles, nextSave>>

\* a request of the page reaches InterviewController.complete
LiveCompleteRecv(m) ==
    /\ m \in net
    /\ m.op = "complete"
    /\ CompleteRecv(m.rid, Owner)
    /\ net' = net \ {m}
    /\ UNCHANGED <<page, interview, scores, saving, navVars, now, elapsed, resultVars, cycles, nextSave>>

\* the server's response reaches the page
LiveSend ==
    /\ Send
    /\ Arrives(response.rid, response.op, response.code \in 200..299)
    /\ UNCHANGED <<interview, scores, saving, navVars, now, elapsed, resultVars, nextSave, net>>

\* a request of the page is lost on the way: axios rejects
RequestLost(m) ==
    /\ m \in net
    /\ net' = net \ {m}
    /\ Arrives(m.rid, m.op, FALSE)
    /\ UNCHANGED <<serverVars, interview, scores, saving, navVars, now, elapsed, resultVars, nextSave>>

NextLive ==
    \/ \E score \in LiveScores : updateScore(score)
    \/ \E notes \in LiveNotes : updateNotes(notes)
    \/ handleNextQuestion
    \/ handlePrevQuestion
    \/ \E idx \in 0..(Cardinality(Questions) - 1) : selectQuestion(idx)
    \/ AutoSaveTick
    \/ handleNextSection
    \/ handleEndEarly
    \/ \E c \in 1..MaxSaves : SaveSettled(c)
    \/ \E m \in net : LiveUpsertRecv(m)
    \/ \E m \in net : LiveCompleteRecv(m)
    \/ \E m \in net : RequestLost(m)
    \/ (\E h \in Suspended : UpsertFind(h)) /\ UNCHANGED <<liveVars, resultVars>>
    \/ (\E h \in Suspended : UpsertWrite(h)) /\ UNCHANGED <<liveVars, resultVars>>
    \/ (\E h \in Suspended : CompleteWrite(h)) /\ UNCHANGED <<liveVars, resultVars>>
    \/ LiveSend

\* the live page on a session that loadInterview has started
InitLive == Created("IN_PROGRESS") /\ Mounted /\ NothingShown

SpecLive == InitLive /\ [][NextLive]_vars

\* C10: at most one save cycle is in flight at any time.
C10_SingleFlight ==
    Cardinality({c \in 1..MaxSaves : cycles[c].state = "saving"}) <= 1

\* ================================================== auto-save, run for ever
\* The promises of the saveScores calls that are over are garbage once no
\* request of them is on its way: their slots are used again.
Forget ==
    /\ nextSave = MaxSaves
    /\ \A c \in 1..MaxSaves : cycles[c].state = "settled"
    /\ net = {}
    /\ pending = EmptyBag
    /\ response = NoResponse
    /\ cycles' = [c \in 1..MaxSaves |-> NoCycle]
    /\ nextSave' = 0
    /\ UNCHANGED <<serverVars, page, interview, scores, saving, navVars, now, net, elapsed,
                   resultVars>>

\* the interviewer scores and annotates the questions of the first section
\* while the interval of useAutoSave fires for ever
NextRetry ==
    \/ \E score \in LiveScores : updateScore(score)
    \/ \E notes \in LiveNotes : updateNotes(notes)
    \/ handleNextQuestion
    \/ AutoSaveTick
    \/ \E c \in 1..MaxSaves : SaveSettled(c)
    \/ \E m \in net : LiveUpsertRecv(m)
    \/ \E m \in net : RequestLost(m)
    \/ (\E h \in Suspended : UpsertFind(h)) /\ UNCHANGED <<liveVars, resultVars>>
    \/ (\E h \in Suspended : UpsertWrite(h)) /\ UNCHANGED <<liveVars, resultVars>>
    \/ LiveSend
    \/ Forget

\* the steps of the server and of the network that concern question q
ServesFind(q) ==
    (\E h \in Suspended : h.body.questionId = q /\ UpsertFind(h))
        /\ UNCHANGED <<liveVars, resultVars>>
ServesWrite(q) ==
    (\E h \in Suspended : h.body.questionId = q /\ UpsertWrite(h))
        /\ UNCHANGED <<liveVars, resultVars>>
Delivers(q) == \E m \in net : m.rid.q = q /\ LiveUpsertRecv(m)

\* setInterval keeps firing, promises settle, the server goes on with what it
\* has begun, and of the requests sent again and again for a question one
\* gets through
FairRetry ==
    /\ WF_vars(AutoSaveTick)
    /\ WF_vars(\E c \in 1..MaxSaves : SaveSettled(c))
    /\ WF_vars(LiveSend)
    /\ WF_vars(Forget)
    /\ WF_vars(\E m \in net : LiveUpsertRecv(m) \/ RequestLost(m))
    /\ \A q \in Questions :
          /\ WF_vars(ServesFind(q))
          /\ WF_vars(ServesWrite(q))
          /\ SF_vars(Delivers(q))

SpecRetry == InitLive /\ [][NextRetry]_vars /\ FairRetry

\* ============================================================ SectionTimer
\* new Date() moves on; the clock is read in steps of ten seconds
ClockStepMs == 10 * 1000
\* the delay of the timer's setInterval
TickIntervalMs == 100

ClockTick ==
    /\ now < MaxNow * ClockStepMs
    /\ now' = now + ClockStepMs
    /\ UNCHANGED <<serverVars, page, interview, scores, saving, navVars, cycles, nextSave,
                   net, elapsed, resultVars>>

\* the props of <SectionTimer startTime durationMinutes />
startTime == sectionStartTime
durationMinutes == interview.sectionConfigs[currentSectionIdx + 1].durationMinutes

\* an interval callback that counts its own calls
TimerElapsed_Counted == elapsed + TickIntervalMs

\* new Date().getTime() - startTime.getTime()
TimerElapsed == now - startTime

\* the callback of the timer's setInterval.  Intervals are delayed and
\* skipped by the browser, so the clock moves any number of steps between
\* two calls.
TimerTick ==
    /\ page = "live"
    /\ elapsed' = TimerElapsed
    /\ UNCHANGED <<serverVars, page, interview, scores, saving, navVars, now, cycles,
                   nextSave, net, resultVars>>

totalMs == durationMinutes * 60 * 1000
\* the remaining time without Math.max
remaining_Unclamped == totalMs - elapsed
\* Math.max(0, totalMs - elapsed)
remaining == IF totalMs - elapsed > 0 THEN totalMs - elapsed ELSE 0
warning == remaining < 60000

\* --------------------------------------------------- the page is (re)loaded
\* useState<Interview | null>(null)
NotLoaded == [sectionConfigs |-> <<>>, selectedQuestions |-> <<>>]
\* a save cycle of a page that is gone: its promises resolve for nobody
Dead == [NoCycle EXCEPT !.state = "dead"]

\* the browser reloads the live page of the running interview: the component
\* mounts with the initial values of its useState calls, SectionTimer with it
Mount ==
    /\ page = "live"
    /\ page' = "loading"
    /\ interview' = NotLoaded
    /\ currentSectionIdx' = 0
    /\ currentQuestionIdx' = 0
    /\ sectionStartTime' = now
    /\ scores' = [q \in Questions |-> None]
    /\ saving' = FALSE
    /\ elapsed' = 0
    /\ cycles' = [c \in 1..MaxSaves |-> IF cycles[c].state = "idle" THEN cycles[c] ELSE Dead]
    /\ UNCHANGED <<serverVars, now, nextSave, net, resultVars>>

\* s.notes || ''
NotesText(notes) == IF IsSome(notes) THEN Val(notes) ELSE ""

\* the Score rows as listByInterview returns them and loadInterview puts
\* them into the buffer: scoreMap[s.questionId] = { score, notes }
scoreMap(rows) ==
    [q \in Questions |->
        IF rows[q] = <<>> THEN None
        ELSE Some([score |-> rows[q][1].score, notes |-> NotesText(rows[q][1].notes)])]

\* loadInterview: getById, start when the interview is in SETUP,
\* listByInterview, setScores; navigate('/interviews') when a call fails
loadInterview ==
    /\ page = "loading"
    /\ IF session.exists
          THEN /\ page' = "live"
               /\ interview' = [sectionConfigs |-> sectionConfigs,
                                selectedQuestions |-> selectedQuestions]
               /\ session' = IF session.status = "SETUP"
                                THEN [session EXCEPT !.status = "IN_PROGRESS"] ELSE session
               /\ scores' = scoreMap(scoreRows)
          ELSE /\ page' = "left"
               /\ UNCHANGED <<interview, session, scores>>
    /\ UNCHANGED <<sectionConfigs, selectedQuestions, scoreRows, pending, response, saving,
                   navVars, now, cycles, nextSave, net, elapsed, resultVars>>

NextTimer ==
    \/ ClockTick
    \/ TimerTick
    \/ handleNextQuestion
    \/ handlePrevQuestion
    \/ \E idx \in 0..(Cardinality(Questions) - 1) : selectQuestion(idx)
    \/ handleNextSection
    \/ handleEndEarly
    \/ Mount
    \/ loadInterview
    \/ \E m \in net : LiveCompleteRecv(m)
    \/ (\E h \in Suspended : CompleteWrite(h)) /\ UNCHANGED <<liveVars, resultVars>>
    \/ LiveSend
    \/ \E m \in net : RequestLost(m)

\* the live page of a running interview with its clock; nothing is scored
SpecTimer == InitLive /\ [][NextTimer]_vars

\* ================================================= scoring against the clock
\* the interviewer scores, annotates, navigates, advances and ends while the
\* clock runs past the time of the section; the requests of the saves are
\* answered by the network alone (axios rejects)
NextOverrun ==
    \/ ClockTick
    \/ TimerTick
    \/ \E score \in LiveScores : updateScore(score)
    \/ \E notes \in LiveNotes : updateNotes(notes)
    \/ \E idx \in 0..(Cardinality(Questions) - 1) : selectQuestion(idx)
    \/ handleNextSection
    \/ handleEndEarly
    \/ \E c \in 1..MaxSaves : SaveSettled(c)
    \/ \E m \in net : LiveCompleteRecv(m)
    \/ (\E h \in Suspended : CompleteWrite(h)) /\ UNCHANGED <<liveVars, resultVars>>
    \/ LiveSend
    \/ \E m \in net : RequestLost(m)

SpecOverrun == InitLive /\ [][NextOverrun]_vars

\* ===================================================== score, save, list
\* nothing of a save is on its way
Quiet ==
    /\ net = {}
    /\ pending = EmptyBag
    /\ response = NoResponse
    /\ \A c \in 1..MaxSaves : cycles[c].state # "saving"

\* the interviewer scores and annotates, a save follows and is served to its
\* end before the next input, and the page is loaded again with the rows
\* listed: one thing at a time
NextRoundTrip ==
    \/ Quiet /\ \E score \in MinScore..MaxScore : updateScore(score)
    \/ Quiet /\ \E notes \in LiveNotes \cup {""} : updateNotes(notes)
    \/ Quiet /\ handleNextQuestion
    \/ Quiet /\ AutoSaveTick
    \/ \E m \in net : LiveUpsertRecv(m)
    \/ (\E h \in Suspended : UpsertFind(h)) /\ UNCHANGED <<liveVars, resultVars>>
    \/ (\E h \in Suspended : UpsertWrite(h)) /\ UNCHANGED <<liveVars, resultVars>>
    \/ LiveSend
    \/ \E c \in 1..MaxSaves : SaveSettled(c)
    \/ Quiet /\ Mount
    \/ loadInterview

SpecRoundTrip == InitLive /\ [][NextRoundTrip]_vars

\* ================================================================== cancel
\* the answer of Express to a request that no route takes
NoRouteMsg == <<"Cannot", "POST">>

\* POST /interviews/:id/cancel: the interview router has the routes create,
\* list, getById, update, start, complete and remove, the export router the
\* two exports; the request passes them all and is answered 404
CancelRecv(rid, caller) ==
    /\ Ready
    /\ Reply("cancel", rid, caller, None, "guard", Http(404, NoRouteMsg))
    /\ UNCHANGED <<dbVars, pending>>

\* the requests that concern the status of a session, and its deletion
NextCancel ==
    \/ (\E caller \in Users : StartRecv(NoRid, caller)) /\ UNCHANGED <<liveVars, resultVars>>
    \/ (\E h \in Suspended : StartWrite(h)) /\ UNCHANGED <<liveVars, resultVars>>
    \/ (\E caller \in Users : CompleteRecv(NoRid, caller)) /\ UNCHANGED <<liveVars, resultVars>>
    \/ (\E h \in Suspended : CompleteWrite(h)) /\ UNCHANGED <<liveVars, resultVars>>
    \/ (\E caller \in Users : DeleteRecv(NoRid, caller)) /\ UNCHANGED <<liveVars, resultVars>>
    \/ (\E h \in Suspended : DeleteCommit(h)) /\ UNCHANGED <<liveVars, resultVars>>
    \/ (\E caller \in Users : CancelRecv(NoRid, caller)) /\ UNCHANGED <<liveVars, resultVars>>
    \/ Send /\ UNCHANGED <<liveVars, resultVars>>

SpecCancel == Init /\ [][NextCancel]_vars

\* ========================================================== authMiddleware
JWT_SECRET == "dev-secret-change-in-prod"
EmailOf == [u \in Users |-> IF u = Owner THEN "owner@test.com" ELSE "other@test.com"]

\* what generateToken makes, and what else arrives as the cookie "token": a
\* JWT is its payload, the key it was signed with and whether it has expired
Jwt(userId, key, expired) ==
    [present |-> TRUE, body |-> "jwt", userId |-> userId, email |-> EmailOf[userId],
     key |-> key, expired |-> expired]
EmptyCookie == [NoCookie EXCEPT !.present = TRUE]
BadToken == [NoCookie EXCEPT !.present = TRUE, !.body = "bad-token"]
Cookies ==
    {NoCookie, EmptyCookie, BadToken}
        \cup {Jwt(u, key, expired) : u \in Users, key \in {JWT_SECRET, "forged"},
                                     expired \in BOOLEAN}

AuthRequiredMsg == <<"Authentication", "required">>
InvalidTokenMsg == <<"Invalid", "or", "expired", "token">>

\* a verifyToken that does not look at the expiry
verifyToken_NoExpiry(token) ==
    IF token.body = "jwt" /\ token.key = JWT_SECRET
       THEN Some([userId |-> token.userId, email |-> token.email])
       ELSE None

\* AuthService.verifyToken: the payload when jwt.verify accepts the
\* signature and the expiry, null when it throws
verifyToken(token) ==
    IF token.body = "jwt" /\ token.key = JWT_SECRET /\ ~token.expired
       THEN Some([userId |-> token.userId, email |-> token.email])
       ELSE None

\* authMiddleware: what it answers, or that it calls next with req.userId
\* and req.userEmail set
authMiddleware(cookie) ==
    IF ~cookie.present \/ cookie.body = ""
       THEN [next |-> FALSE, code |-> 401, error |-> AuthRequiredMsg,
             userId |-> "", userEmail |-> ""]
    ELSE IF ~IsSome(verifyToken(cookie))
       THEN [next |-> FALSE, code |-> 401, error |-> InvalidTokenMsg,
             userId |-> "", userEmail |-> ""]
    ELSE [next |-> TRUE, code |-> 0, error |-> NoMsg,
          userId |-> Val(verifyToken(cookie)).userId,
          userEmail |-> Val(verifyToken(cookie)).email]

\* router.use(authMiddleware): the request as the middleware leaves it
Through(cookie) ==
    req' = [seq |-> 1 - req.seq, cookie |-> cookie, next |-> authMiddleware(cookie).next,
            userId |-> authMiddleware(cookie).userId,
            userEmail |-> authMiddleware(cookie).userEmail]
\* res.status(401).json(...) and return
Unauthenticated(cookie, op) ==
    /\ Ready
    /\ Reply(op, NoRid, "", None, "auth",
             Http(authMiddleware(cookie).code, authMiddleware(cookie).error))
    /\ UNCHANGED <<dbVars, pending>>

\* the routes of the interview router behind the middleware
AuthStart(cookie) ==
    /\ Through(cookie)
    /\ IF authMiddleware(cookie).next
          THEN StartRecv(NoRid, authMiddleware(cookie).userId)
          ELSE Unauthenticated(cookie, "start")
    /\ UNCHANGED <<liveVars, loaded, shown>>
AuthComplete(cookie) ==
    /\ Through(cookie)
    /\ IF authMiddleware(cookie).next
          THEN CompleteRecv(NoRid, authMiddleware(cookie).userId)
          ELSE Unauthenticated(cookie, "complete")
    /\ UNCHANGED <<liveVars, loaded, shown>>
AuthDelete(cookie) ==
    /\ Through(cookie)
    /\ IF authMiddleware(cookie).next
          THEN DeleteRecv(NoRid, authMiddleware(cookie).userId)
          ELSE Unauthenticated(cookie, "delete")
    /\ UNCHANGED <<liveVars, loaded, shown>>

NextAuth ==
    \/ \E cookie \in Cookies : AuthStart(cookie)
    \/ \E cookie \in Cookies : AuthComplete(cookie)
    \/ \E cookie \in Cookies : AuthDelete(cookie)
    \/ (\E h \in Suspended : StartWrite(h)) /\ UNCHANGED <<liveVars, resultVars>>
    \/ (\E h \in Suspended : CompleteWrite(h)) /\ UNCHANGED <<liveVars, resultVars>>
    \/ (\E h \in Suspended : DeleteCommit(h)) /\ UNCHANGED <<liveVars, resultVars>>
    \/ Send /\ UNCHANGED <<liveVars, resultVars>>

SpecAuth == Init /\ [][NextAuth]_vars

\* ================================================== overall score surfaces
\* The interview fetched by a surface: three sections of three, three and
\* one selected questions, and the Score rows there are.
ReportQuestions == {"a1", "a2", "a3", "b1", "b2", "b3", "c1"}
ReportSelection == <<[questionId |-> "a1", sectionId |-> "s1"],
                     [questionId |-> "a2", sectionId |-> "s1"],
                     [questionId |-> "a3", sectionId |-> "s1"],
                     [questionId |-> "b1", sectionId |-> "s2"],
                     [questionId |-> "b2", sectionId |-> "s2"],
                     [questionId |-> "b3", sectionId |-> "s2"],
                     [questionId |-> "c1", sectionId |-> "s3"]>>
ReportPlans == {<<[sectionId |-> "s1"], [sectionId |-> "s2"], [sectionId |-> "s3"]>>,
                <<[sectionId |-> "s1"], [sectionId |-> "s2"]>>}
\* the scores the rows are drawn from, 0 standing for "no row": every score
\* for the first section, the two lowest for the second, 2 for the third
ScoreChoices == [a1 |-> 0..MaxScore, a2 |-> 0..MaxScore, a3 |-> 0..MaxScore,
                 b1 |-> 0..2, b2 |-> 0..2, b3 |-> 0..2, c1 |-> {0, 2}]
ScoreInputs == {f \in [ReportQuestions -> 0..MaxScore] :
                   \A q \in ReportQuestions : f[q] \in ScoreChoices[q]}
Fetched(plan, f) ==
    [sectionConfigs |-> plan,
     selectedQuestions |-> ReportSelection,
     scores |-> {[questionId |-> q, score |-> f[q]] : q \in {p \in ReportQuestions : f[p] # 0}}]

\* ------------------------------------------------------------ JS numbers
\* a number is the fraction n/d; 0/0 is NaN
Frac(n, d) == [n |-> n, d |-> d]
NaN == Frac(0, 0)
IsNaN(x) == x.d = 0
\* a + b
Plus(a, b) == IF IsNaN(a) \/ IsNaN(b) THEN NaN ELSE Frac(a.n * b.d + b.n * a.d, a.d * b.d)
\* a / k for an array length k
Over(a, k) == IF IsNaN(a) \/ k = 0 THEN NaN ELSE Frac(a.n, a.d * k)

RECURSIVE SumSeq(_)
\* arr.reduce((a, b) => a + b, 0) over numbers
SumSeq(arr) == IF arr = <<>> THEN Frac(0, 1) ELSE Plus(arr[1], SumSeq(Tail(arr)))

\* what is displayed: a text that is no number, or a number with one
\* decimal, given in tenths.  tenths holds two values where the number lies
\* on the boundary between them and its double may fall on either side.
Text(t) == [text |-> t, tenths |-> {}]
Tenths(S) == [text |-> "", tenths |-> S]

\* x.toFixed(1), x >= 0: the nearest tenth, the larger one when x is exactly
\* halfway.  A halfway x that is a multiple of 1/4 is exact as a double; any
\* other halfway x is not, and the double rounds one way or the other.
toFixed(x) ==
    IF IsNaN(x) THEN Text("NaN")
    ELSE LET t == (20 * x.n + x.d) \div (2 * x.d)
             halfway == (20 * x.n + x.d) % (2 * x.d) = 0
             exact == (4 * x.n) % x.d = 0
         IN  IF halfway /\ ~exact THEN Tenths({t - 1, t}) ELSE Tenths({t})

\* scoreMap.get(questionId): the Score row of the question, if there is one
ScoreMapGet(r, questionId) == {s \in r.scores : s.questionId = questionId}
\* the selected questions of section sc
SectionQuestions(r, sc) ==
    SelectSeq(r.selectedQuestions, LAMBDA q : q.sectionId = sc.sectionId)
\* the Score rows of the selected questions of section sc, as numbers
SectionScores(r, sc) ==
    LET scored == SelectSeq(SectionQuestions(r, sc),
                            LAMBDA q : ScoreMapGet(r, q.questionId) # {})
    IN  [k \in 1..Len(scored) |->
            Frac((CHOOSE s \in ScoreMapGet(r, scored[k].questionId) : TRUE).score, 1)]

\* ------------------------------------------------ ExportService.generateExcel
RECURSIVE ExcelSectionAvgs(_, _)
\* the loop that fills sectionAvgs, over the section configs from index k on
ExcelSectionAvgs(r, k) ==
    IF k > Len(r.sectionConfigs) THEN <<>>
    ELSE LET sScores == SectionScores(r, r.sectionConfigs[k])
         IN  (IF Len(sScores) > 0 THEN <<Over(SumSeq(sScores), Len(sScores))>> ELSE <<>>)
             \o ExcelSectionAvgs(r, k + 1)

\* generateExcel with the flat mean of all scores of the plan's sections
ExcelOverall_FlatMean(r) ==
    LET all == SelectSeq(r.selectedQuestions,
                         LAMBDA q : /\ ScoreMapGet(r, q.questionId) # {}
                                    /\ \E k \in 1..Len(r.sectionConfigs) :
                                          r.sectionConfigs[k].sectionId = q.sectionId)
        flat == [k \in 1..Len(all) |->
                    Frac((CHOOSE s \in ScoreMapGet(r, all[k].questionId) : TRUE).score, 1)]
    IN  IF Len(flat) > 0 THEN toFixed(Over(SumSeq(flat), Len(flat))) ELSE Text("N/A")

\* generateExcel without the test for an empty sectionAvgs
ExcelOverall_NoEmptyTest(r) ==
    LET sectionAvgs == ExcelSectionAvgs(r, 1)
    IN  toFixed(Over(SumSeq(sectionAvgs), Len(sectionAvgs)))

\* the 'Overall Average' row of the Summary sheet
ExcelOverall(r) ==
    LET sectionAvgs == ExcelSectionAvgs(r, 1)
    IN  IF Len(sectionAvgs) > 0
           THEN toFixed(Over(SumSeq(sectionAvgs), Len(sectionAvgs)))
           ELSE Text("N/A")

\* -------------------------------------------------- ExportService.generatePdf
RECURSIVE PdfSectionAvgs(_, _)
PdfSectionAvgs(r, k) ==
    IF k > Len(r.sectionConfigs) THEN <<>>
    ELSE LET sScores == SectionScores(r, r.sectionConfigs[k])
         IN  (IF Len(sScores) > 0 THEN <<Over(SumSeq(sScores), Len(sScores))>> ELSE <<>>)
             \o PdfSectionAvgs(r, k + 1)

\* the 'Overall Average: x / 5' line of the report
PdfOverall(r) ==
    LET sectionAvgs == PdfSectionAvgs(r, 1)
    IN  IF Len(sectionAvgs) > 0
           THEN toFixed(Over(SumSeq(sectionAvgs), Len(sectionAvgs)))
           ELSE Text("N/A")

\* ------------------------------------------------------ InterviewResultsPage
\* sectionGroups[k].avg: the section's mean as toFixed(1) made it, or the dash
SectionGroupAvg(r, sc) ==
    LET sectionScores == SectionScores(r, sc)
    IN  IF Len(sectionScores) > 0
           THEN toFixed(Over(SumSeq(sectionScores), Len(sectionScores)))
           ELSE Text("-")

\* sectionGroups.filter(g => g.avg !== dash), as the avg of each
ScoredSections(r) ==
    SelectSeq([k \in 1..Len(r.sectionConfigs) |-> SectionGroupAvg(r, r.sectionConfigs[k])],
              LAMBDA avg : avg.text # "-")

RECURSIVE SumParsed(_)
\* reduce((sum, g) => sum + parseFloat(g.avg), 0): the sums there can be, in
\* tenths
SumParsed(avgs) ==
    IF avgs = <<>> THEN {0}
    ELSE {t + rest : t \in avgs[1].tenths, rest \in SumParsed(Tail(avgs))}

\* avgScore, the BigScore of the page
ResultsOverall(r) ==
    LET scoredSections == ScoredSections(r)
    IN  IF Len(scoredSections) > 0
           THEN Tenths(UNION {toFixed(Over(Frac(sum, 10), Len(scoredSections))).tenths :
                                 sum \in SumParsed(scoredSections)})
           ELSE Text("-")

\* --------------------------------------------------------- getOverallScore
RECURSIVE ListSectionAvgs(_, _)
\* the loop that fills sectionAvgs; a score passes the filter when s > 0
ListSectionAvgs(r, k) ==
    IF k > Len(r.sectionConfigs) THEN <<>>
    ELSE LET sectionScores == SelectSeq(SectionScores(r, r.sectionConfigs[k]),
                                        LAMBDA s : s.n > 0)
         IN  (IF Len(sectionScores) > 0
                 THEN <<Over(SumSeq(sectionScores), Len(sectionScores))>> ELSE <<>>)
             \o ListSectionAvgs(r, k + 1)

\* the ScorePill of the interview's card: score.toFixed(1), no pill for null
ListOverall(r) ==
    IF r.scores = {} \/ Len(r.sectionConfigs) = 0 \/ Len(r.selectedQuestions) = 0
       THEN Text("null")
    ELSE LET sectionAvgs == ListSectionAvgs(r, 1)
         IN  IF Len(sectionAvgs) > 0
                THEN toFixed(Over(SumSeq(sectionAvgs), Len(sectionAvgs)))
                ELSE Text("null")

\* --------------------------------------------------------------- rendering
Show(surface, overall) ==
    /\ shown' = [surface |-> surface, overall |-> overall]
    /\ UNCHANGED <<serverVars, liveVars, loaded, req>>

\* GET /interviews/:id/export/excel
generateExcel == Show("excel", ExcelOverall(loaded))
\* GET /interviews/:id/export/pdf
generatePdf == Show("pdf", PdfOverall(loaded))
\* the results page renders
InterviewResultsPage == Show("results", ResultsOverall(loaded))
\* the interview list renders the card of the interview
InterviewListPage == Show("list", ListOverall(loaded))

NextResults ==
    \/ generateExcel
    \/ generatePdf
    \/ InterviewResultsPage
    \/ InterviewListPage

\* the surfaces of a finished interview, whatever its Score rows
InitResults ==
    /\ Created("COMPLETED")
    /\ Mounted
    /\ \E plan \in ReportPlans, f \in ScoreInputs : loaded = Fetched(plan, f)
    /\ shown = NotShown
    /\ req = NoRequest

SpecResults == InitResults /\ [][NextResults]_vars

\* ======================================================== session lifecycle
Forward(a, b) ==
    \/ a = b
    \/ a = "SETUP" /\ b \in {"IN_PROGRESS", "CANCELLED"}
    \/ a = "IN_PROGRESS" /\ b \in {"COMPLETED", "CANCELLED"}

\* C1: while the session row exists its status only moves forward,
\* SETUP -> IN_PROGRESS -> COMPLETED or SETUP/IN_PROGRESS -> CANCELLED, under
\* every interleaving of the handlers' reads and writes.
C1_StatusOnlyForward ==
    [][(session.exists /\ session'.exists) => Forward(session.status, session'.status)]_vars

\* a response is produced by this step
Replies(op) == response = NoResponse /\ response'.op = op

\* a handler of this kind gets past its guards in this step
Admits(op) ==
    \E h \in BagToSet(pending') :
        /\ h.op = op
        /\ CopiesIn(h, pending') > CopiesIn(h, pending)
        /\ BagCardinality(pending') > BagCardinality(pending)

\* C2: a begin that finds the session in a status other than SETUP never
\* reaches the write; the owner's is answered 400 with the
\* start-only-in-SETUP error and changes nothing.  A begin that finds SETUP
\* is not rejected, and a begin answered after its write is answered 200 and
\* leaves the session IN_PROGRESS (so of two begins in succession the second
\* is the one rejected).
C2_BeginOnlyFromDraft ==
    [][/\ (session.exists /\ session.status # "SETUP") => ~Admits("start")
       /\ (Replies("start") /\ response'.caller = Owner /\ session.exists) =>
             /\ response'.stage = "guard" =>
                   /\ session.status # "SETUP"
                   /\ response'.code = 400
                   /\ response'.error = StartMsg
                   /\ UNCHANGED dbVars
             /\ response'.stage = "write" =>
                   /\ response'.code = 200
                   /\ session'.status = "IN_PROGRESS"]_vars

\* C2 witness: the owner's second begin, on a running session, was rejected
C2_Witness ==
    /\ response.op = "start" /\ response.caller = Owner /\ response.code = 400
    /\ session.exists /\ session.status = "IN_PROGRESS"

\* C3: a finish by the owner that finds the session in a status other than
\* IN_PROGRESS is answered with a typed lifecycle error (a 400 carrying the
\* complete-only-in-IN_PROGRESS message), not with an internal error.
C3_FinishRejectedTyped ==
    (/\ response.op = "complete" /\ response.stage = "guard"
     /\ response.caller = Owner /\ session.exists
     /\ session.status # "IN_PROGRESS")
    => (response.code = 400 /\ response.error = CompleteMsg)

\* C4: once the session is COMPLETED no upsert Score request gets past the
\* controller: it is rejected and the Score rows stay as they are.
C4_NoUpsertAfterFinished ==
    [][(session.exists /\ session.status = "COMPLETED") =>
          (~Admits("upsert") /\ scoreRows' = scoreRows)]_vars

\* C5 as claimed: every response to a caller who is not the owner of the
\* existing session is 403 Unauthorized.
C5_NonOwnerAlwaysUnauthorized ==
    (response.op # "none" /\ response.caller # Owner /\ session.exists)
    => (response.code = 403 /\ response.error = UnauthorizedMsg)

\* C5 as amended: a request by a caller who is not the owner of the existing
\* session never gets past the guards and changes no row; it is answered 403
\* Unauthorized, except an upsert Score with an invalid body, which is
\* answered 400 by the validation (a field is missing, or the score is not
\* an integer in 1..5) that runs before the ownership check.
C5_NonOwnerRejected ==
    [][/\ \A h \in BagToSet(pending') : h.caller = Owner
       /\ (response = NoResponse /\ response' # NoResponse
           /\ response'.caller # Owner /\ session.exists) =>
             /\ UNCHANGED <<dbVars, pending>>
             /\ \/ response'.code = 403 /\ response'.error = UnauthorizedMsg
                \/ /\ response'.op = "upsert" /\ response'.code = 400
                   /\ \/ response'.error = RequiredMsg
                      \/ /\ response'.error = ScoreRangeMsg
                         /\ \A n \in 1..5 : response'.score # Some(2 * n)]_vars

\* C5 witness: a non-owner's delete of the existing session was refused
C5_Witness ==
    /\ response.op = "delete" /\ response.caller # Owner /\ response.code = 403
    /\ session.exists /\ scoreRows["q1"] # <<>>

\* C6: once the session has left SETUP no step writes its SectionPlan or
\* QuestionSelection rows.
C6_PlanFrozenAfterDraft ==
    [][(session.exists /\ session'.exists /\ session.status # "SETUP") =>
          (sectionConfigs' = sectionConfigs /\ selectedQuestions' = selectedQuestions)]_vars

SelectedIds == {selectedQuestions[k].questionId : k \in 1..Len(selectedQuestions)}

\* C7: every Score row's questionId is one of the session's selected
\* questions.
C7_ScoresWithinSelection ==
    \A q \in Questions : scoreRows[q] # <<>> => q \in SelectedIds

\* C8: every Score row holds an integer score in 1..5, and an upsert whose
\* score is not an integer in 1..5 is answered 400 by the validation and
\* writes nothing.
C8_ScoreRangeEnforced ==
    [][/\ \A q \in Questions : \A k \in 1..Len(scoreRows'[q]) :
             scoreRows'[q][k].score \in 1..5
       /\ (Replies("upsert") /\ \A n \in 1..5 : response'.score # Some(2 * n)) =>
             /\ response'.code = 400
             /\ response'.error = IF response'.score = None THEN RequiredMsg ELSE ScoreRangeMsg
             /\ UNCHANGED <<dbVars, pending>>]_vars

\* C8 witness: a score of 0 was rejected while a valid score is stored
C8_Witness ==
    /\ response.op = "upsert" /\ response.score = Some(0) /\ response.code = 400
    /\ scoreRows["q1"] # <<>>

\* C9: at most one Score row per (interviewId, questionId).
C9_OneRowPerQuestion ==
    \A q \in Questions : Len(scoreRows[q]) <= 1

\* C9 witness: an upsert that found no row is about to create one although
\* a racing upsert has inserted the row meanwhile
C9_Witness ==
    \E h \in Suspended :
        /\ h.op = "upsert" /\ h.pc = "write" /\ ~h.found
        /\ scoreRows[h.body.questionId] # <<>>

\* ============================================================ the live page
\* the Score row of question q holds what the buffer holds for it
Persisted(q) ==
    /\ Len(scoreRows[q]) = 1
    /\ scoreRows[q][1].score = Val(scores[q]).score
    /\ scoreRows[q][1].notes = Some(Val(scores[q]).notes)

\* C11: in the step in which the session becomes COMPLETED, every buffer
\* entry with a score > 0 has a Score row with the same score and notes.
C11_FinishFlushesBuffer ==
    [][(session.status # "COMPLETED" /\ session'.status = "COMPLETED") =>
          \A q \in ToSave : Persisted(q)]_vars

\* the upsert of question q of save cycle c is on its way or being served
InFlight(c, q) ==
    \/ \E m \in net : m.op = "upsert" /\ m.rid = [cycle |-> c, q |-> q]
    \/ \E h \in Suspended : h.op = "upsert" /\ h.rid = [cycle |-> c, q |-> q]
    \/ response.op = "upsert" /\ response.rid = [cycle |-> c, q |-> q]

\* the save cycle of a handleNextSection whose await ends in this step
Advancing(c) ==
    /\ cycles[c].state = "saving"
    /\ cycles[c].trigger = "next"
    /\ cycles'[c].state = "settled"

\* C12 as claimed: when the section index changes, every upsert of the
\* manual save that precedes it has been issued and has settled.
C12_SavedBeforeAdvance ==
    [][currentSectionIdx' # currentSectionIdx =>
          \A c \in 1..MaxSaves : Advancing(c) =>
              \A q \in Questions : cycles[c].results[q] \in {"none", "ok", "fail"}]_vars

\* C12 as amended: the section index and the anchor change only at the end
\* of a manual save, to the section after the one the save began in; every
\* upsert of that save has been issued, and all of them have settled unless
\* one of them has failed, in which case the others may still be in flight.
C12_IssuedBeforeAdvance ==
    [][(currentSectionIdx' # currentSectionIdx \/ sectionStartTime' # sectionStartTime) =>
          \/ /\ ToSave = {}
             /\ nextSave' = nextSave + 1
             /\ currentSectionIdx' = currentSectionIdx + 1
          \/ \E c \in 1..MaxSaves :
                /\ Advancing(c)
                /\ currentSectionIdx' = cycles[c].idx + 1
                /\ \/ \E q \in Questions : cycles[c].results[q] = "fail"
                   \/ \A q \in Questions : cycles[c].results[q] \in {"none", "ok"}
                /\ \A q \in Questions : cycles[c].results[q] = "wait" => InFlight(c, q)]_vars

\* C12 witness: the only save so far was a manual one, the section has
\* advanced after one of its upserts failed, and another is still in flight
C12_Witness ==
    /\ currentSectionIdx = 1
    /\ nextSave = 1
    /\ \E m \in net : m.op = "upsert"

\* the questions whose upsert is sent in this step
BufferEntries ==
    {[score |-> s, notes |-> n] : s \in LiveScores, n \in LiveNotes \cup {""}}
Requests(msgs) == {m \in msgs : m.op = "upsert"}
\* a save cycle is over in this step
SaveEnds == \E c \in 1..MaxSaves : cycles[c].state = "saving" /\ cycles'[c].state = "settled"

\* C13: the end of a save, failed or not, sends nothing: requests are sent
\* only by a call of saveScores, that of the next tick; while a save is in
\* flight or has failed the page still takes scores, notes and navigation;
\* and with ticks that keep firing and a server that eventually accepts, an
\* entry with a score > 0 that stays as it is in the buffer is eventually
\* persisted with its score and notes.
C13_RetriedOnNextTick ==
    /\ [][/\ SaveEnds => Requests(net') \subseteq Requests(net)
          /\ ~(Requests(net') \subseteq Requests(net)) => nextSave' = nextSave + 1]_vars
    /\ [](page = "live" =>
            /\ ENABLED (\E score \in LiveScores : updateScore(score))
            /\ ENABLED (\E notes \in LiveNotes : updateNotes(notes))
            /\ ENABLED (handleNextQuestion \/ handlePrevQuestion)
            /\ ENABLED (\E idx \in 0..(Cardinality(Questions) - 1) : selectQuestion(idx)))
    /\ \A q \in Questions : \A v \in BufferEntries :
          (scores[q] = Some(v)) ~> (scores[q] # Some(v) \/ Persisted(q))

\* C13 witness: the requests of the first save were lost; the save of the
\* next tick has persisted both entries
C13_Witness ==
    /\ \A q \in Questions : cycles[1].results[q] = "fail"
    /\ \A q \in Questions : cycles[2].results[q] = "ok" /\ Persisted(q)

Issued == {m.rid.q : m \in {n \in net' \ net : n.op = "upsert"}}

\* C14: a save cycle sends an upsert for exactly the buffer entries with a
\* score > 0, carrying that score and the notes; an entry without a score
\* (absent, or 0 as made by updateNotes) is never sent, and while a question
\* has no score in the buffer it has no Score row.
C14_OnlyScoredEntriesSaved ==
    [][/\ nextSave' # nextSave =>
             /\ Issued = {q \in Questions : scores[q] # None /\ Val(scores[q]).score >= 1}
             /\ \A m \in net' \ net : m.op = "upsert" =>
                    /\ m.body.questionId = m.rid.q
                    /\ m.body.score = Some(2 * Val(scores[m.rid.q]).score)
                    /\ m.body.notes = Some(Val(scores[m.rid.q]).notes)
       /\ nextSave' = nextSave => Issued = {}
       /\ \A q \in Questions :
             (scores'[q] = None \/ Val(scores'[q]).score = 0) => scoreRows'[q] = <<>>]_vars

\* C14 witness: a save has run while one question held notes without a
\* score; the other question's score was stored
C14_Witness ==
    /\ \E q \in Questions : scores[q] # None /\ Val(scores[q]).score = 0
    /\ \E q \in Questions : scoreRows[q] # <<>>
    /\ \A c \in 1..MaxSaves : cycles[c].state = "settled"

\* ============================================================ overall score
\* the Score rows of the selected questions of the k-th section of the plan
ScoredIn(r, k) ==
    {s \in r.scores : \E i \in 1..Len(r.selectedQuestions) :
        /\ r.selectedQuestions[i].questionId = s.questionId
        /\ r.selectedQuestions[i].sectionId = r.sectionConfigs[k].sectionId}
\* the sections of the plan with at least one scored question
ScoredSectionsOf(r) == {k \in 1..Len(r.sectionConfigs) : ScoredIn(r, k) # {}}

RECURSIVE SumOfScores(_)
SumOfScores(rows) ==
    IF rows = {} THEN 0
    ELSE LET s == CHOOSE s \in rows : TRUE IN s.score + SumOfScores(rows \ {s})

RECURSIVE CountProduct(_, _)
\* the product of the numbers of scored questions of the sections K
CountProduct(r, K) ==
    IF K = {} THEN 1
    ELSE LET k == CHOOSE k \in K : TRUE
         IN  Cardinality(ScoredIn(r, k)) * CountProduct(r, K \ {k})

RECURSIVE MeansSum(_, _, _)
\* the sum of the means of the sections K, times the product of the numbers
\* of scored questions of the sections All
MeansSum(r, K, All) ==
    IF K = {} THEN 0
    ELSE LET k == CHOOSE k \in K : TRUE
         IN  SumOfScores(ScoredIn(r, k)) * CountProduct(r, All \ {k}) + MeansSum(r, K \ {k}, All)

\* t tenths is a one-decimal value of the mean of the scored sections' means:
\* no other number of tenths is nearer to it
IsMeanOfMeans(r, t) ==
    LET K == ScoredSectionsOf(r)
        den == CountProduct(r, K) * Cardinality(K)
        num == 10 * MeansSum(r, K, K)
        diff == IF num >= t * den THEN num - t * den ELSE t * den - num
    IN  2 * diff <= den

\* the Score rows of sections A (5, 3, 4) and B (1, 1), and of A alone
RowsOf(f) == {[questionId |-> q, score |-> f[q]] : q \in {p \in DOMAIN f : f[p] # 0}}
ExampleAB == RowsOf([a1 |-> 5, a2 |-> 3, a3 |-> 4, b1 |-> 1, b2 |-> 1])
ExampleA == RowsOf([a1 |-> 5, a2 |-> 3, a3 |-> 4])

C16_SameOnEverySurface ==
    shown.surface # "none" =>
        IF ScoredSectionsOf(loaded) = {}
           THEN shown.overall.tenths = {}
           ELSE \E t \in shown.overall.tenths : IsMeanOfMeans(loaded, t)

Max0(x) == IF x >= 0 THEN x ELSE 0

\* C18: for every allocated duration of at least one minute and every elapsed
\* time, the timer's remaining time is max(0, allocatedMinutes*60000 - elapsed)
\* and never negative, and the low-time flag is set exactly when less than a
\* minute remains; with one allocated minute and an anchor 70 seconds in the
\* past the remaining time is 0 and the flag is set.
C18_RemainingClamped ==
    page = "live" =>
        LET allocatedMinutes ==
                interview.sectionConfigs[currentSectionIdx + 1].durationMinutes
        IN  /\ allocatedMinutes >= 1 /\ elapsed >= 0
            /\ remaining = Max0(allocatedMinutes * 60000 - elapsed)
            /\ remaining >= 0
            /\ warning <=> (elapsed > (allocatedMinutes - 1) * 60000)
            /\ (allocatedMinutes = 1 /\ elapsed = 70000) => (remaining = 0 /\ warning)

\* the first section (one minute) has run for 70 seconds and the timer has
\* ticked
C18_Witness ==
    /\ page = "live"
    /\ durationMinutes = 1
    /\ now - sectionStartTime = 70000
    /\ elapsed = 70000

\* ------------------------------------------------------------------- C19
\* C19: the timer does not drift: whenever a display tick changes the shown
\* elapsed time, the new value is the clock at that tick minus the anchor of
\* the current section, however the earlier ticks fell; it is never the
\* previous value plus the tick interval.
C19_ElapsedFromClock ==
    [][(elapsed' # elapsed) => (elapsed' = now' - sectionStartTime')]_vars

\* the second section was anchored after one clock step; the timer ticked two
\* clock steps later, after a first tick one step into the section
C19_Witness ==
    /\ page = "live"
    /\ currentSectionIdx = 1
    /\ sectionStartTime = ClockStepMs
    /\ now = 3 * ClockStepMs
    /\ elapsed = 2 * ClockStepMs

\* ------------------------------------------------------------------- C20
\* C20: the anchor of the timer changes only when the active section changes,
\* and the index of the active section never decreases, whatever the page
\* does (navigation between questions, loading or resuming the running
\* interview included).
C20_AnchorOncePerSection ==
    [][/\ (sectionStartTime' # sectionStartTime) => (currentSectionIdx' # currentSectionIdx)
       /\ currentSectionIdx' >= currentSectionIdx]_vars


\* ------------------------------------------------------------------- C21
\* the section on screen is the last one of the plan
LastSection == ~(currentSectionIdx < Len(interview.sectionConfigs) - 1)
\* the time of the active section is over on the timer
TimeIsUp == page = "live" /\ remaining = 0
\* a complete request of the page is being served
CompleteAsked == \E h \in Suspended : h.op = "complete" /\ h.rid.cycle \in 1..MaxSaves

\* C21: with no time remaining in the active section the page still takes
\* scores, notes, the selection of a question, Next Section and End Interview,
\* each with its usual effect; a step in which time passes or the timer ticks
\* changes nothing but the clock and the timer's display; the section index
\* changes only in a step of handleNextSection or at the end of its save, and
\* the status only while a complete request of the page is served.
C21_OverrunBlocksNothing ==
    /\ [](TimeIsUp =>
            /\ \A score \in LiveScores : HasCurrentQuestion =>
                  ENABLED (updateScore(score)
                              /\ scores'[CurrentQuestion] =
                                    Some([score |-> score,
                                          notes |-> NotesOrEmpty(scores[CurrentQuestion])]))
            /\ \A notes \in LiveNotes : HasCurrentQuestion =>
                  ENABLED (updateNotes(notes) /\ Val(scores'[CurrentQuestion]).notes = notes)
            /\ \A idx \in 0..(Len(QuestionsInSection(currentSectionIdx)) - 1) :
                  ENABLED (selectQuestion(idx) /\ currentQuestionIdx' = idx)
            /\ (nextSave < MaxSaves /\ ToSave = {} /\ ~LastSection
                  /\ ~(currentQuestionIdx < Len(QuestionsInSection(currentSectionIdx)) - 1)) =>
                  ENABLED (handleNextSection /\ currentSectionIdx' = currentSectionIdx + 1)
            /\ nextSave < MaxSaves =>
                  ENABLED (handleEndEarly /\ nextSave' = nextSave + 1))
    /\ [][/\ (now' # now \/ elapsed' # elapsed) =>
                UNCHANGED <<serverVars, page, interview, scores, saving, navVars, cycles,
                            nextSave, net>>
          /\ currentSectionIdx' # currentSectionIdx =>
                \/ nextSave' = nextSave + 1 /\ ToSave = {}
                \/ \E c \in 1..MaxSaves : /\ cycles[c].trigger = "next"
                                          /\ cycles[c].state = "saving"
                                          /\ cycles'[c].state = "settled"
          /\ session'.status # session.status => CompleteAsked]_vars

\* the timer showed no time remaining in the first section (its last tick, at
\* 60 s); the page moved on to the second section after that, at 70 s, with a
\* score in the buffer
C21_Witness ==
    /\ page = "live"
    /\ currentSectionIdx = 1
    /\ sectionStartTime = 7 * ClockStepMs
    /\ elapsed = 6 * ClockStepMs
    /\ scores["q1"] # None
    /\ scoreRows["q1"] = <<>>


\* ------------------------------------------------------------------- C22
\* C22: a score of 1..5 set for a question, saved at once and listed comes
\* back: when the save that follows the input ends, the list of Scores holds
\* for every scored question of the buffer an entry with the buffered score
\* and notes, whether the save created the row or updated it.
C22_ScoreRoundTrip ==
    [][SaveEnds =>
          \A q \in ToSave :
              /\ IsSome(scoreMap(scoreRows')[q])
              /\ Val(scoreMap(scoreRows')[q]).score = Val(scores[q]).score
              /\ Val(scoreMap(scoreRows')[q]).notes = Val(scores[q]).notes]_vars

\* the page was loaded again with the entry of q1 among the rows listed, the
\* score of q1 was changed from 5 to 3, and the upsert of the save that
\* followed has found the row and is about to update it
C22_Witness ==
    /\ cycles[1].state = "dead"
    /\ scores["q1"] = Some([score |-> 3, notes |-> "n"])
    /\ scoreRows["q1"] = <<[score |-> 5, notes |-> Some("n")]>>
    /\ \E h \in Suspended : h.pc = "write" /\ h.found /\ h.body.questionId = "q1"


\* ------------------------------------------------------------------- C23
\* the questions whose buffer entry changes in this step
Touched == {q \in Questions : scores'[q] # scores[q]}
EntryScore(entry) == IF IsSome(entry) THEN Val(entry).score ELSE 0
EntryNotes(entry) == IF IsSome(entry) THEN Val(entry).notes ELSE ""

\* C23: a step changes the buffer entry of at most one question, the one on
\* screen, and either its score, keeping its notes, or its notes, keeping its
\* score; a step in which a request is answered, rejected or lost, or in which
\* a save ends, changes no entry.
C23_BufferUpdatesLocal ==
    [][/\ Cardinality(Touched) <= 1
       /\ \A q \in Touched :
             /\ page = "live" /\ HasCurrentQuestion /\ q = CurrentQuestion
             /\ IsSome(scores'[q])
             /\ \/ EntryNotes(scores'[q]) = EntryNotes(scores[q])
                \/ EntryScore(scores'[q]) = EntryScore(scores[q])
       /\ (cycles' # cycles \/ net' # net \/ response' # response \/ saving' # saving) =>
             Touched = {}]_vars

\* both questions hold notes, the first one a score set after its notes, and
\* the request of a save for it has failed
C23_Witness ==
    /\ scores["q1"] = Some([score |-> 5, notes |-> "n"])
    /\ scores["q2"] = Some([score |-> 0, notes |-> "n"])
    /\ \E c \in 1..MaxSaves : cycles[c].results["q1"] = "fail"


\* ------------------------------------------------------------------- C24
\* the number of questions of the section on screen
SectionLength == Len(QuestionsInSection(currentSectionIdx))

\* C24: the index of the question on screen is never negative and, in a
\* section with questions, below their number; a step that moves it within
\* the section moves it to an index of the section; the step that changes the
\* section sets it to 0.
C24_QuestionIndexInRange ==
    /\ [](page = "live" =>
            /\ currentQuestionIdx >= 0
            /\ SectionLength > 0 => currentQuestionIdx < SectionLength)
    /\ [][/\ currentSectionIdx' # currentSectionIdx => currentQuestionIdx' = 0
          /\ (currentQuestionIdx' # currentQuestionIdx
                 /\ currentSectionIdx' = currentSectionIdx) =>
                currentQuestionIdx' \in 0..(SectionLength - 1)]_vars

\* the page went on to the second section from the second question of the
\* first one, with nothing to save
C24_Witness ==
    /\ page = "live"
    /\ currentSectionIdx = 1
    /\ currentQuestionIdx = 0
    /\ nextSave = 1
    /\ cycles[1].state = "settled"
    /\ BufferEmpty


\* ------------------------------------------------------------------- C25
\* C25: a cancel of the owner on a session that is in SETUP or IN_PROGRESS
\* when the request is answered leaves the session CANCELLED.
C25_CancelFromDraftOrRunning ==
    [][(/\ Replies("cancel")
        /\ response'.caller = Owner
        /\ session.exists
        /\ session.status \in {"SETUP", "IN_PROGRESS"}) =>
            session'.status = "CANCELLED"]_vars


\* ------------------------------------------------------------------- C26
\* the questions that have a Score row
Scored(rows) == {q \in Questions : rows[q] # <<>>}

Verifies(cookie) ==
    cookie.present /\ cookie.body = "jwt" /\ cookie.key = JWT_SECRET /\ ~cookie.expired
\* a handler behind the middleware starts or answers in this step
HandlerRuns ==
    \/ BagCardinality(pending') > BagCardinality(pending)
    \/ response = NoResponse /\ response' # NoResponse /\ response'.stage = "guard"

\* C27: a request whose cookie is missing or does not verify is answered 401
\* by the middleware and reaches no handler; a request whose token verifies
\* is passed on with userId and userEmail of the token; no handler starts
\* without a request that passed.
C27_NoHandlerWithoutIdentity ==
    [][/\ (req' # req /\ ~Verifies(req'.cookie)) =>
             /\ ~req'.next
             /\ response'.code = 401 /\ response'.stage = "auth"
             /\ pending' = pending
             /\ UNCHANGED dbVars
       /\ (req' # req /\ Verifies(req'.cookie)) =>
             /\ req'.next
             /\ req'.userId = req'.cookie.userId
             /\ req'.userEmail = req'.cookie.email
             /\ HandlerRuns
             /\ \/ \E h \in BagToSet(pending') :
                       h.caller = req'.cookie.userId /\ CopiesIn(h, pending') > CopiesIn(h, pending)
                \/ response'.caller = req'.cookie.userId
       /\ HandlerRuns => (req' # req /\ Verifies(req'.cookie))]_vars

\* a start with a token of the owner that has expired was answered 401 and
\* the session is still in SETUP
C27_Witness ==
    /\ req.cookie = Jwt(Owner, JWT_SECRET, TRUE)
    /\ response.op = "start"
    /\ response.code = 401
    /\ session.status = "SETUP"


\* ------------------------------------------------------------------- C28
\* the upsert of save cycle c for question q writes the row in this step
Writes(c, q) ==
    /\ scoreRows'[q] # scoreRows[q]
    /\ \E h \in Suspended :
          /\ h.op = "upsert" /\ h.rid.cycle = c /\ h.body.questionId = q
          /\ CopiesIn(h, pending') < CopiesIn(h, pending)
\* the upsert of save cycle c for question q has been answered 2xx
Acknowledged(c, q) == cycles[c].state = "saving" /\ cycles[c].results[q] = "ok"

\* C28: the Score row of a question that a later save cycle has written, and
\* the server has acknowledged, is not changed back by the upsert of a save
\* cycle that started earlier: when both have settled the row holds what the
\* later cycle carried.
C28_NewerNotOverwritten ==
    [][\A q \in Questions : \A c \in 1..MaxSaves : \A d \in 1..MaxSaves :
          (c < d /\ Acknowledged(d, q)) => ~Writes(c, q)]_vars


\* ------------------------------------------------------------------- C29
\* a call of saveScores is awaiting its upserts
SaveInFlight == \E c \in 1..MaxSaves : cycles[c].state = "saving"

\* C29: on the live page the "Saving..." flag is set exactly while a save
\* cycle is in flight.
C29_SavingFlagAccurate == page = "live" => (saving <=> SaveInFlight)


\* ------------------------------------------------------------------- C30
\* the request that carries the buffer entry of q as it stands (the score as
\* the wire number of it, in halves), sent by
\* save cycle c
Latest(c, q) ==
    [rid |-> [cycle |-> c, q |-> q], op |-> "upsert",
     body |-> [questionId |-> q, score |-> <<2 * scores[q][1].score>>,
               notes |-> <<scores[q][1].notes>>]]
\* the questions with a score in the buffer
HasScore == {q \in Questions : scores[q] # <<>> /\ scores[q][1].score > 0}

====
